---- MODULE Spec2Model ----
(***************************************************************************)
(* Content-moderation plugin: the decision engine of the asynchronous      *)
(* PostProcessor (server/processor.go) and of the synchronous hooks of     *)
(* Plugin (server/plugin.go), the bounded posts channel and its worker,    *)
(* the activation of the plugin and its HTTP endpoint (server/api.go).     *)
(***************************************************************************)
EXTENDS Integers, Sequences, FiniteSets, TLC

VARIABLES
    \* PostProcessor fields (processor.go:34-43)
    botID, thresholdValue, excludedUsers, excludedChannels,
    postsCh, closed,
    \* the worker goroutine of PostProcessor.start
    pc, cur,
    \* wall clock, the worker's wake-up time, the times of its provider calls
    now, wakeAt, evalTimes,
    \* host side: api.DeletePost requests, api.CreatePost posts, api.Log* entries
    deleteRequests, created, logs,
    \* history: ids of the posts admitted, ids of the posts the worker received,
    \* the verdict of each post the worker evaluated, calls of queuePostForProcessing
    admitted, received, verdicts, enqueues,
    \* Plugin fields (plugin.go:24-36) and config.ModerateAllUsers
    Plugin_moderator, Plugin_thresholdValue, Plugin_targetUsers, ModerateAllUsers,
    \* the last evaluation of a decision engine and the last hook return
    lastEval, gateRet,
    \* history: the ids buffered in postsCh when stop() closed it
    bufferedAtStop,
    \* Plugin.configuration, the host's view of the activation and the error
    \* OnActivate returned, the position of a running initModerator
    configuration, status, activateErr, initPc,
    \* history: the configuration the last complete initModerator applied
    appliedConfig,
    \* what newPostProcessor returned, once it was called
    procResult,
    \* the responses ServeHTTP wrote, one per request
    responses

procVars == <<botID, thresholdValue, excludedUsers, excludedChannels>>
chanVars == <<postsCh, closed>>
workerVars == <<pc, cur>>
clockVars == <<now, wakeAt, evalTimes>>
hostVars == <<deleteRequests, created, logs>>
histVars == <<admitted, received, verdicts, enqueues>>
pluginVars == <<Plugin_moderator, Plugin_thresholdValue, Plugin_targetUsers, ModerateAllUsers>>
evalVars == <<lastEval, gateRet>>
lifeVars == <<configuration, status, activateErr, initPc, appliedConfig, procResult>>
httpVars == <<responses>>
vars == <<procVars, chanVars, workerVars, clockVars, hostVars, histVars, pluginVars, evalVars,
          bufferedAtStop, lifeVars, httpVars>>

(***************************************************************************)
(* Bounds of the model and the values inputs are drawn from.               *)
(***************************************************************************)
\* severities a provider result may carry are 0..MaxSeverity
MaxSeverity == 2
\* number of calls of queuePostForProcessing in one behaviour
MaxEnqueue == 3
\* the clock stops advancing at MaxTime
MaxTime == 1
\* capacity of postsCh; 10000 in processor.go:18, scaled down
maxProcessingQueueSize == 2
\* 500 in processor.go:19, scaled down (any limit > 1 divides 1 to 0)
postsPerMinuteLimit == 2
\* time.Minute in clock ticks
Minute == 2
\* number of HTTP requests in one behaviour
MaxRequests == 2

BotUser == "bot"
Users == {BotUser, "u1", "u2"}
Channels == {"c1", "c2"}
\* a text is the sequence of its words; "" is the empty sequence
EmptyText == <<>>
Messages == {EmptyText, <<"bad", "text">>}
Categories == {"hate", "violence"}
Severities == 0..MaxSeverity
Thresholds == 0..(MaxSeverity + 1)

\* moderation.Result: a map from category to severity; any subset of the categories
Results == UNION {[cs -> Severities] : cs \in SUBSET Categories}
\* what moderator.ModerateText returns: (result, err)
ProviderOutcomes == [err : BOOLEAN, result : Results]

MkPost(id, user, channel, root, message) ==
    [Id |-> id, UserId |-> user, ChannelId |-> channel, RootId |-> root, Message |-> message]

NoPost == MkPost("", "", "", "", EmptyText)
NoOutcome == [err |-> FALSE, result |-> [c \in {} |-> 0]]

(***************************************************************************)
(* processor.go: errors, notification templates, interval.                 *)
(***************************************************************************)
\* an error value is the text errors.New was given, which err.Error() returns
ErrNil == <<"<nil>">>
ErrModerationRejection == <<"potentially", "inappropriate", "content", "detected">>
ErrModerationUnavailable == <<"moderation", "service", "is", "not", "available">>

channelNotificationTemplate ==
    <<"_A", "post", "with", "potentially", "offensive", "content", "was", "flagged", "and", "removed._">>
dmNotificationTemplate ==
    <<"_Your", "post", "with", "the", "following", "content", "was", "flagged", "and", "removed:_", "%s">>
\* fmt.Sprintf(format, text) for a format with one %s verb
Sprintf(format, text) ==
    LET i == CHOOSE k \in 1..Len(format) : format[k] = "%s"
    IN  SubSeq(format, 1, i - 1) \o text \o SubSeq(format, i + 1, Len(format))

\* 1 / postsPerMinuteLimit * time.Minute, untyped integer constants: the
\* division is an integer division and comes first
processingInterval == (1 \div postsPerMinuteLimit) * Minute

Eval(err, called, entries) == [err |-> err, called |-> called, logs |-> entries]

LogEntry(level, msg, kv) == [level |-> level, msg |-> msg, kv |-> kv]

shouldModerateUser(userID) ==
    IF userID = botID THEN FALSE
    ELSE IF Cardinality(excludedUsers) = 0 THEN TRUE
    ELSE userID \notin excludedUsers

\* mutant: the channel set is read as the set of channels to moderate
shouldModerateChannel_inverted(channelID) ==
    IF Cardinality(excludedChannels) = 0 THEN TRUE
    ELSE channelID \in excludedChannels

shouldModerateChannel(channelID) ==
    IF Cardinality(excludedChannels) = 0 THEN TRUE
    ELSE channelID \notin excludedChannels

\* mutant: a severity equal to the threshold does not count
resultSeverityAboveThreshold_strict(result) ==
    \E category \in DOMAIN result : result[category] > thresholdValue

resultSeverityAboveThreshold(result) ==
    \E category \in DOMAIN result : result[category] >= thresholdValue

\* the key pairs are appended in map order; the entry keeps them as a map
logFlaggedResult(postID, result) ==
    LogEntry("info", "Content was flagged by moderation",
             [post_id |-> postID, severity_threshold |-> thresholdValue,
              computed_severity |->
                  [c \in {d \in DOMAIN result : result[d] >= thresholdValue} |-> result[c]]])

\* mutant: an empty message is sent to the provider like any other
moderatePost_noEmptyCheck(post, outcome) ==
    IF ~shouldModerateUser(post.UserId) THEN Eval(ErrNil, FALSE, {})
    ELSE IF ~shouldModerateChannel(post.ChannelId) THEN Eval(ErrNil, FALSE, {})
    ELSE IF outcome.err THEN Eval(ErrModerationUnavailable, TRUE, {})
    ELSE IF resultSeverityAboveThreshold(outcome.result)
         THEN Eval(ErrModerationRejection, TRUE, {logFlaggedResult(post.Id, outcome.result)})
    ELSE Eval(ErrNil, TRUE, {})

moderatePost(post, outcome) ==
    IF ~shouldModerateUser(post.UserId) THEN Eval(ErrNil, FALSE, {})
    ELSE IF ~shouldModerateChannel(post.ChannelId) THEN Eval(ErrNil, FALSE, {})
    ELSE IF post.Message = EmptyText THEN Eval(ErrNil, FALSE, {})
    ELSE IF outcome.err THEN Eval(ErrModerationUnavailable, TRUE, {})
    ELSE IF resultSeverityAboveThreshold(outcome.result)
         THEN Eval(ErrModerationRejection, TRUE, {logFlaggedResult(post.Id, outcome.result)})
    ELSE Eval(ErrNil, TRUE, {})

(***************************************************************************)
(* plugin.go: the synchronous hooks.                                       *)
(***************************************************************************)
Plugin_ErrModerationRejection ==
    <<"_This", "post", "has", "been", "redacted", "by", "the", "moderation", "plugin:", "potentially", "inappropriate", "content", "detected_">>
Plugin_ErrModerationUnavailable ==
    <<"_This", "post", "has", "been", "redacted", "by", "the", "moderation", "plugin:", "moderation", "service", "is", "not", "available_">>

NilModerator == "nil"
AzureModerator == "azure"

Plugin_shouldModerateUser(userID) ==
    IF ModerateAllUsers THEN TRUE
    ELSE userID \in Plugin_targetUsers

Plugin_resultSeverityAboveThreshold(result) ==
    \E category \in DOMAIN result : result[category] >= Plugin_thresholdValue

Plugin_logFlaggedResult(userID, result) ==
    LogEntry("info", "Content was flagged by moderation",
             [user_id |-> userID, threshold |-> Plugin_thresholdValue,
              flagged |->
                  [c \in {d \in DOMAIN result : result[d] >= Plugin_thresholdValue} |-> result[c]]])

\* mutant: the result of a failed call is interpreted before the error
Plugin_moderatePost_partial(post, outcome) ==
    IF Plugin_moderator = NilModerator \/ ~Plugin_shouldModerateUser(post.UserId)
    THEN Eval(ErrNil, FALSE, {})
    ELSE IF post.Message = EmptyText THEN Eval(ErrNil, FALSE, {})
    ELSE IF Plugin_resultSeverityAboveThreshold(outcome.result)
         THEN Eval(Plugin_ErrModerationRejection, TRUE,
                   {Plugin_logFlaggedResult(post.UserId, outcome.result)})
    ELSE IF outcome.err THEN Eval(Plugin_ErrModerationUnavailable, TRUE, {})
    ELSE Eval(ErrNil, TRUE, {})

Plugin_moderatePost(post, outcome) ==
    IF Plugin_moderator = NilModerator \/ ~Plugin_shouldModerateUser(post.UserId)
    THEN Eval(ErrNil, FALSE, {})
    ELSE IF post.Message = EmptyText THEN Eval(ErrNil, FALSE, {})
    ELSE IF outcome.err
         THEN Eval(Plugin_ErrModerationUnavailable, TRUE,
                   {LogEntry("error", "Text moderation failed",
                             [err |-> "provider error"])})
    ELSE IF Plugin_resultSeverityAboveThreshold(outcome.result)
         THEN Eval(Plugin_ErrModerationRejection, TRUE,
                   {Plugin_logFlaggedResult(post.UserId, outcome.result)})
    ELSE Eval(ErrNil, TRUE, {})

\* the hook's return value (*model.Post, string); post is {} for a nil pointer
HookReturn(hook, posts, reason) == [hook |-> hook, post |-> posts, reason |-> reason]

\* mutant: a violation is rejected with a reason instead of being rewritten
MessageWillBePosted_ret_reject(newPost, ev) ==
    IF ev.err # ErrNil
    THEN HookReturn("MessageWillBePosted", {}, "rejected")
    ELSE HookReturn("MessageWillBePosted", {}, "")

MessageWillBePosted_ret(newPost, ev) ==
    IF ev.err # ErrNil
    THEN HookReturn("MessageWillBePosted", {[newPost EXCEPT !.Message = ev.err]}, "")
    ELSE HookReturn("MessageWillBePosted", {}, "")

MessageWillBeUpdated_ret(newPost, ev) ==
    IF ev.err # ErrNil
    THEN HookReturn("MessageWillBeUpdated", {[newPost EXCEPT !.Message = ev.err]}, "")
    ELSE HookReturn("MessageWillBeUpdated", {newPost}, "")

\* what the host commits after a hook returned (hook contract, plugin.go:95-98):
\* the replacement post, or the original when the hook returned a nil post
Committed(original, ret) == IF ret.post = {} THEN original ELSE CHOOSE q \in ret.post : TRUE

\* Verdict of an evaluation, from the error the decision engine returned
Verdict(err) ==
    CASE err = ErrNil -> "Clear"
      [] err \in {ErrModerationRejection, Plugin_ErrModerationRejection} -> "Violation"
      [] err \in {ErrModerationUnavailable, Plugin_ErrModerationUnavailable} -> "Unavailable"
      [] OTHER -> "Unknown"

NoEval == [path |-> "none", post |-> NoPost, outcome |-> NoOutcome,
           err |-> ErrNil, called |-> FALSE, logs |-> {}]
NoReturn == HookReturn("none", {}, "")

\* what an evaluation did: its input, the error it returned, whether it called
\* the provider (the outcome of a call never made is not recorded), its log entries
\* Plugin.configuration as getConfiguration returns it
MkConfiguration(enabled, type, threshold, all, targets) ==
    [Enabled |-> enabled, Type |-> type, Threshold |-> threshold,
     ModerateAllUsers |-> all, ModerationTargets |-> targets]
DefaultConfiguration == MkConfiguration(TRUE, "azure", <<"2">>, TRUE, <<>>)
\* the (processor, error) pair newPostProcessor returned for the moderator it
\* was given; called is FALSE before the call
ProcessorResult(called, moderator, err) ==
    [called |-> called, moderator |-> moderator, err |-> err]
NoProcessor == ProcessorResult(FALSE, NilModerator, ErrNil)
Constructed == ProcessorResult(TRUE, AzureModerator, ErrNil)

Evaluation(path, post, outcome, ev) ==
    [path |-> path, post |-> post,
     outcome |-> IF ev.called THEN outcome ELSE NoOutcome,
     err |-> ev.err, called |-> ev.called, logs |-> ev.logs]

(***************************************************************************)
(* The asynchronous pipeline: newPostProcessor, start, stop,               *)
(* queuePostForProcessing and the worker loop.                             *)
(***************************************************************************)
PostIds == <<"p1", "p2", "p3", "p4", "p5", "p6">>
\* the posts the host hands to the queue; the n-th call carries the n-th id
PipelinePosts(id) ==
    { MkPost(id, "u2", "c2", "r1", <<"bad", "text">>) }
\* (result, err) pairs the provider returns to the worker
PipelineOutcomes ==
    { [err |-> TRUE, result |-> [c \in {"hate"} |-> MaxSeverity]],
      [err |-> FALSE, result |-> [c \in {"hate"} |-> MaxSeverity]],
      [err |-> FALSE, result |-> [c \in Categories |-> 0]] }

\* the exclusion sets newPostProcessor is given
PipelineConfigs ==
    { [excludedUsers |-> {}, excludedChannels |-> {}],
      [excludedUsers |-> {"u2"}, excludedChannels |-> {"c2"}] }

DirectChannelId == [u \in Users |->
    CASE u = "u1" -> "dm_bot_u1" [] u = "u2" -> "dm_bot_u2" [] OTHER -> "dm_bot_bot"]

Init ==
    /\ botID = BotUser
    /\ thresholdValue = MaxSeverity
    /\ \E config \in PipelineConfigs :
        /\ excludedUsers = config.excludedUsers
        /\ excludedChannels = config.excludedChannels
    /\ postsCh = <<>>
    /\ closed = FALSE
    /\ pc = "recv"
    /\ cur = NoPost
    /\ now = 0
    /\ wakeAt = 0
    /\ evalTimes = <<>>
    /\ deleteRequests = <<>>
    /\ created = <<>>
    /\ logs = {}
    /\ admitted = <<>>
    /\ received = <<>>
    /\ verdicts = [id \in {} |-> "Clear"]
    /\ enqueues = 0
    /\ Plugin_moderator = NilModerator
    /\ Plugin_thresholdValue = 0
    /\ Plugin_targetUsers = {}
    /\ ModerateAllUsers = FALSE
    /\ lastEval = NoEval
    /\ gateRet = NoReturn
    /\ bufferedAtStop = <<>>
    /\ configuration = DefaultConfiguration
    /\ status = "active"
    /\ activateErr = ErrNil
    /\ initPc = "idle"
    /\ appliedConfig = {DefaultConfiguration}
    /\ procResult = Constructed
    /\ responses = <<>>

\* mutant: a send on the closed channel is admitted like any other
Send_onClosedAdmits(post) ==
    IF Len(postsCh) < maxProcessingQueueSize
    THEN [ch |-> Append(postsCh, post), sent |-> TRUE, panicked |-> FALSE, entries |-> {}]
    ELSE [ch |-> postsCh, sent |-> FALSE, panicked |-> FALSE,
          entries |-> {LogEntry("error",
                                "Content moderation unable to analyze post: exceeded maximum post queue size",
                                [post_id |-> post.Id])}]

\* mutant: one post more than the capacity is buffered
Send_offByOne(post) ==
    IF closed
    THEN [ch |-> postsCh, sent |-> FALSE, panicked |-> TRUE,
          entries |-> {LogEntry("debug", "Panic occurred while queueing post for processing",
                                [post_id |-> post.Id, panic |-> "send on closed channel"])}]
    ELSE IF Len(postsCh) <= maxProcessingQueueSize
    THEN [ch |-> Append(postsCh, post), sent |-> TRUE, panicked |-> FALSE, entries |-> {}]
    ELSE [ch |-> postsCh, sent |-> FALSE, panicked |-> FALSE,
          entries |-> {LogEntry("error",
                                "Content moderation unable to analyze post: exceeded maximum post queue size",
                                [post_id |-> post.Id])}]

\* the select of queuePostForProcessing: a send on a closed channel panics and
\* the deferred recover logs it; a send on a full channel takes the default case
Send(post) ==
    IF closed
    THEN [ch |-> postsCh, sent |-> FALSE, panicked |-> TRUE,
          entries |-> {LogEntry("debug", "Panic occurred while queueing post for processing",
                                [post_id |-> post.Id, panic |-> "send on closed channel"])}]
    ELSE IF Len(postsCh) < maxProcessingQueueSize
    THEN [ch |-> Append(postsCh, post), sent |-> TRUE, panicked |-> FALSE, entries |-> {}]
    ELSE [ch |-> postsCh, sent |-> FALSE, panicked |-> FALSE,
          entries |-> {LogEntry("error",
                                "Content moderation unable to analyze post: exceeded maximum post queue size",
                                [post_id |-> post.Id])}]

queuePostForProcessing(post) ==
    /\ enqueues < MaxEnqueue
    /\ LET r == Send(post) IN
        /\ postsCh' = r.ch
        /\ logs' = logs \cup r.entries
        /\ admitted' = IF r.sent THEN Append(admitted, post.Id) ELSE admitted
    /\ enqueues' = enqueues + 1
    /\ UNCHANGED <<lifeVars, httpVars, bufferedAtStop,
                   procVars, closed, workerVars, clockVars, deleteRequests, created,
                   received, verdicts, pluginVars, evalVars>>

\* close(p.postsCh); a second close would panic in the caller and is not taken
stop ==
    /\ ~closed
    /\ closed' = TRUE
    /\ bufferedAtStop' = [i \in DOMAIN postsCh |-> postsCh[i].Id]
    /\ UNCHANGED <<lifeVars, httpVars,
                   procVars, postsCh, workerVars, clockVars, hostVars, histVars,
                   pluginVars, evalVars>>

\* mutants: the newest post is received first; the received post stays buffered
Receive_lifo(ch) == [post |-> ch[Len(ch)], ch |-> SubSeq(ch, 1, Len(ch) - 1)]
Receive_peek(ch) == [post |-> Head(ch), ch |-> ch]

\* post, ok := <-p.postsCh: buffered posts are received even after close
Receive(ch) == [post |-> Head(ch), ch |-> Tail(ch)]

\* mutant: the receive reports a closed channel while posts are still buffered
ReceiveClosed_failFast(ch, isClosed) == isClosed

\* mutant: the receive never reports the close and blocks on the empty channel
ReceiveClosed_never(ch, isClosed) == FALSE

\* lines 68-71: ok is false only when the channel is closed and empty
ReceiveClosed(ch, isClosed) == isClosed /\ Len(ch) = 0

\* lines 68-73: the receive and the start of time.Sleep(processingInterval)
WorkerReceive ==
    /\ pc = "recv"
    /\ IF ReceiveClosed(postsCh, closed)
       THEN /\ pc' = "done"
            /\ UNCHANGED <<cur, postsCh, received, wakeAt>>
       ELSE /\ Len(postsCh) > 0
            /\ LET r == Receive(postsCh) IN
                /\ cur' = r.post
                /\ postsCh' = r.ch
                /\ received' = Append(received, r.post.Id)
            /\ wakeAt' = now + processingInterval
            /\ pc' = "sleep"
    /\ UNCHANGED <<lifeVars, httpVars, bufferedAtStop,
                   procVars, closed, now, evalTimes, hostVars, admitted, verdicts,
                   enqueues, pluginVars, evalVars>>

\* mutant: every error of moderatePost is handled as a rejection
AfterModerate_failClosed(err) == IF err # ErrNil THEN "delete" ELSE "recv"

\* lines 76-85: what the worker does with the error of moderatePost
AfterModerate(err) == IF err = ErrModerationRejection THEN "delete" ELSE "recv"

\* lines 73-83: the sleep is over, moderatePost runs, a nil or unavailable
\* result ends the iteration
WorkerModerate(outcome) ==
    /\ pc = "sleep"
    /\ now >= wakeAt
    /\ LET ev == moderatePost(cur, outcome) IN
        /\ lastEval' = Evaluation("async", cur, outcome, ev)
        /\ evalTimes' = IF ev.called THEN Append(evalTimes, now) ELSE evalTimes
        /\ verdicts' = [id \in DOMAIN verdicts \cup {cur.Id} |->
                            IF id = cur.Id THEN Verdict(ev.err) ELSE verdicts[id]]
        /\ logs' = logs \cup ev.logs \cup
                   (IF ev.err = ErrModerationUnavailable
                    THEN {LogEntry("error", "Content moderation error",
                                   [err |-> ev.err, post_id |-> cur.Id, user_id |-> cur.UserId])}
                    ELSE {})
        /\ pc' = AfterModerate(ev.err)
    \* time.Sleep has returned: no wake-up time is pending
    /\ wakeAt' = 0
    /\ UNCHANGED <<lifeVars, httpVars, bufferedAtStop,
                   procVars, chanVars, cur, now, deleteRequests, created,
                   admitted, received, enqueues, pluginVars, gateRet>>

\* mutant: a failed deletion ends the iteration without the notifications
AfterDelete_skipReport(ok) == IF ok THEN "report" ELSE "recv"

\* lines 85-89: the LogError of a failed DeletePost falls through to the report
AfterDelete(ok) == "report"

\* lines 85-87: api.DeletePost, whose failure is only logged
WorkerDelete(ok) ==
    /\ pc = "delete"
    /\ deleteRequests' = Append(deleteRequests, [post_id |-> cur.Id, ok |-> ok])
    /\ logs' = IF ok THEN logs
               ELSE logs \cup {LogEntry("error",
                                        "Failed to delete post flagged by content moderation",
                                        [post_id |-> cur.Id])}
    /\ pc' = AfterDelete(ok)
    /\ UNCHANGED <<lifeVars, httpVars, bufferedAtStop,
                   procVars, chanVars, cur, clockVars, created, histVars, pluginVars, evalVars>>

\* mutant: the channel notice quotes the flagged message like the DM does
reportModerationEvent_echo(post, failAt) ==
    LET notice == [post |-> MkPost("", botID, post.ChannelId, post.RootId,
                                   Sprintf(dmNotificationTemplate, post.Message)),
                   ok |-> failAt # "channel"]
        dm == [post |-> MkPost("", botID, DirectChannelId[post.UserId], "",
                               Sprintf(dmNotificationTemplate, post.Message)),
               ok |-> failAt # "dm"]
    IN  IF failAt = "channel" THEN [posts |-> <<notice>>, err |-> TRUE]
        ELSE IF failAt = "dmchannel" THEN [posts |-> <<notice>>, err |-> TRUE]
        ELSE [posts |-> <<notice, dm>>, err |-> failAt = "dm"]

\* the api.CreatePost calls reportModerationEvent makes when the host call
\* named failAt fails ("none": all succeed); a failure returns at once
reportModerationEvent(post, failAt) ==
    LET notice == [post |-> MkPost("", botID, post.ChannelId, post.RootId,
                                   channelNotificationTemplate),
                   ok |-> failAt # "channel"]
        dm == [post |-> MkPost("", botID, DirectChannelId[post.UserId], "",
                               Sprintf(dmNotificationTemplate, post.Message)),
               ok |-> failAt # "dm"]
    IN  IF failAt = "channel" THEN [posts |-> <<notice>>, err |-> TRUE]
        ELSE IF failAt = "dmchannel" THEN [posts |-> <<notice>>, err |-> TRUE]
        ELSE [posts |-> <<notice, dm>>, err |-> failAt = "dm"]

\* lines 89-91: reportModerationEvent, whose failure is only logged
WorkerReport(failAt) ==
    /\ pc = "report"
    /\ LET r == reportModerationEvent(cur, failAt) IN
        /\ created' = created \o r.posts
        /\ logs' = IF r.err
                   THEN logs \cup {LogEntry("error", "Failed report content moderation event",
                                            [post_id |-> cur.Id])}
                   ELSE logs
    /\ pc' = "recv"
    /\ UNCHANGED <<lifeVars, httpVars, bufferedAtStop,
                   procVars, chanVars, cur, clockVars, deleteRequests, histVars,
                   pluginVars, evalVars>>

Tick ==
    /\ now < MaxTime
    /\ now' = now + 1
    /\ UNCHANGED <<lifeVars, httpVars, bufferedAtStop,
                   procVars, chanVars, workerVars, wakeAt, evalTimes, hostVars, histVars,
                   pluginVars, evalVars>>

Next ==
    \/ \E post \in PipelinePosts(PostIds[enqueues + 1]) : queuePostForProcessing(post)
    \/ stop
    \/ WorkerReceive
    \/ \E outcome \in PipelineOutcomes : WorkerModerate(outcome)
    \/ \E ok \in BOOLEAN : WorkerDelete(ok)
    \/ \E failAt \in {"none", "channel", "dmchannel", "dm"} : WorkerReport(failAt)
    \/ Tick

Spec == Init /\ [][Next]_vars

\* the worker goroutine keeps running and every provider and host call it
\* makes returns; time passes
WorkerFairness ==
    /\ WF_vars(WorkerReceive)
    /\ WF_vars(\E outcome \in PipelineOutcomes : WorkerModerate(outcome))
    /\ WF_vars(\E ok \in BOOLEAN : WorkerDelete(ok))
    /\ WF_vars(\E failAt \in {"none", "channel", "dmchannel", "dm"} : WorkerReport(failAt))
    /\ WF_vars(Tick)

FairSpec == Spec /\ WorkerFairness

(***************************************************************************)
(* One evaluation by a decision engine, over every configuration, post and *)
(* provider outcome of the bounded sets: PostProcessor.moderatePost called *)
(* directly, and the two hooks of Plugin.                                  *)
(***************************************************************************)
DecidePosts == {MkPost("p1", u, c, "", m) : u \in Users, c \in Channels, m \in Messages}

\* configurations of the PostProcessor, and of the Plugin, at activation
ProcessorConfigs ==
    [thresholdValue : Thresholds, excludedUsers : SUBSET Users,
     excludedChannels : SUBSET Channels]
PluginConfigs ==
    [moderator : {NilModerator, AzureModerator}, thresholdValue : Thresholds,
     ModerateAllUsers : BOOLEAN, targetUsers : SUBSET Users]
DefaultProcessorConfig ==
    [thresholdValue |-> MaxSeverity, excludedUsers |-> {}, excludedChannels |-> {}]
DefaultPluginConfig ==
    [moderator |-> AzureModerator, thresholdValue |-> MaxSeverity,
     ModerateAllUsers |-> TRUE, targetUsers |-> {}]
\* either component varies over all its configurations while the other keeps
\* its default: neither engine reads the other's fields
DecideConfigs ==
    {[proc |-> c, plugin |-> DefaultPluginConfig] : c \in ProcessorConfigs}
    \cup {[proc |-> DefaultProcessorConfig, plugin |-> c] : c \in PluginConfigs}

DecideInit ==
    /\ botID = BotUser
    /\ \E config \in DecideConfigs :
        /\ thresholdValue = config.proc.thresholdValue
        /\ excludedUsers = config.proc.excludedUsers
        /\ excludedChannels = config.proc.excludedChannels
        /\ Plugin_moderator = config.plugin.moderator
        /\ Plugin_thresholdValue = config.plugin.thresholdValue
        /\ Plugin_targetUsers = config.plugin.targetUsers
        /\ ModerateAllUsers = config.plugin.ModerateAllUsers
    /\ postsCh = <<>>
    /\ closed = FALSE
    /\ pc = "recv"
    /\ cur = NoPost
    /\ now = 0
    /\ wakeAt = 0
    /\ evalTimes = <<>>
    /\ deleteRequests = <<>>
    /\ created = <<>>
    /\ logs = {}
    /\ admitted = <<>>
    /\ received = <<>>
    /\ verdicts = [id \in {} |-> "Clear"]
    /\ enqueues = 0
    /\ lastEval = NoEval
    /\ gateRet = NoReturn
    /\ bufferedAtStop = <<>>
    /\ configuration = DefaultConfiguration
    /\ status = "active"
    /\ activateErr = ErrNil
    /\ initPc = "idle"
    /\ appliedConfig = {DefaultConfiguration}
    /\ procResult = Constructed
    /\ responses = <<>>

PostProcessor_moderatePost(post, outcome) ==
    /\ lastEval = NoEval
    /\ LET ev == moderatePost(post, outcome) IN
        /\ lastEval' = Evaluation("async", post, outcome, ev)
        /\ logs' = logs \cup ev.logs
    /\ UNCHANGED <<lifeVars, httpVars, bufferedAtStop,
                   procVars, chanVars, workerVars, clockVars, deleteRequests, created,
                   histVars, pluginVars, gateRet>>

MessageWillBePosted(newPost, outcome) ==
    /\ lastEval = NoEval
    /\ LET ev == Plugin_moderatePost(newPost, outcome) IN
        /\ lastEval' = Evaluation("gate", newPost, outcome, ev)
        /\ gateRet' = MessageWillBePosted_ret(newPost, ev)
        /\ logs' = logs \cup ev.logs
    /\ UNCHANGED <<lifeVars, httpVars, bufferedAtStop,
                   procVars, chanVars, workerVars, clockVars, deleteRequests, created,
                   histVars, pluginVars>>

MessageWillBeUpdated(newPost, oldPost, outcome) ==
    /\ lastEval = NoEval
    /\ LET ev == Plugin_moderatePost(newPost, outcome) IN
        /\ lastEval' = Evaluation("gate", newPost, outcome, ev)
        /\ gateRet' = MessageWillBeUpdated_ret(newPost, ev)
        /\ logs' = logs \cup ev.logs
    /\ UNCHANGED <<lifeVars, httpVars, bufferedAtStop,
                   procVars, chanVars, workerVars, clockVars, deleteRequests, created,
                   histVars, pluginVars>>

DecideNext ==
    \/ \E post \in DecidePosts, outcome \in ProviderOutcomes :
           PostProcessor_moderatePost(post, outcome)
    \/ \E newPost \in DecidePosts, outcome \in ProviderOutcomes :
           MessageWillBePosted(newPost, outcome)
    \/ \E newPost \in DecidePosts, oldMessage \in Messages, outcome \in ProviderOutcomes :
           MessageWillBeUpdated(newPost, [newPost EXCEPT !.Message = oldMessage], outcome)

DecideSpec == DecideInit /\ [][DecideNext]_vars

(***************************************************************************)
(* Activation and configuration of the Plugin: OnActivate, initModerator   *)
(* and its field writes one at a time, a configuration change while the    *)
(* hooks run, and the construction of the PostProcessor.                   *)
(***************************************************************************)
\* errors.Wrap(err, msg).Error() is "msg: err"
Wrap(err, msg) == msg \o <<":">> \o err

\* the threshold setting is a text; one decimal digit is well-formed
DigitTexts == <<"0", "1", "2", "3", "4", "5", "6", "7", "8", "9">>
ThresholdValue(config) ==
    IF Len(config.Threshold) = 1 /\ \E d \in DOMAIN DigitTexts : DigitTexts[d] = config.Threshold[1]
    THEN [err |-> ErrNil,
          value |-> (CHOOSE d \in DOMAIN DigitTexts : DigitTexts[d] = config.Threshold[1]) - 1]
    ELSE [err |-> <<"invalid", "threshold">>, value |-> 0]
\* the configured list of user ids as a set
ModerationTargetsList(config) ==
    {config.ModerationTargets[i] : i \in DOMAIN config.ModerationTargets}

\* the configurations the host may hand to the plugin
Configurations ==
    {MkConfiguration(enabled, type, threshold, all, targets) :
        enabled \in BOOLEAN, type \in {"azure", "other"},
        threshold \in {<<"1">>, <<"x">>},
        all \in BOOLEAN, targets \in {<<"u1">>}}

\* mutant: an unknown provider type is initialized like "azure"
initModerator_moderator_anyType(config, azureErr) ==
    IF ~config.Enabled
    THEN [done |-> TRUE, err |-> ErrNil, moderator |-> {NilModerator},
          logs |-> {LogEntry("info", "Content moderation is disabled", <<>>)}]
    ELSE IF azureErr
         THEN [done |-> TRUE,
               err |-> Wrap(<<"azure", "error">>, <<"failed", "to", "create", "Azure", "moderator">>),
               moderator |-> {},
               logs |-> {LogEntry("error", "failed to create Azure moderator",
                                  [err |-> "azure error"])}]
         ELSE [done |-> FALSE, err |-> ErrNil, moderator |-> {AzureModerator},
               logs |-> {LogEntry("info", "Azure AI Content Safety moderator initialized", <<>>)}]

\* initModerator, lines 51-78: the return when it returns here, the value it
\* assigns to p.moderator ({} for no assignment) and its log entries; azureErr
\* is whether azure.New fails
initModerator_moderator(config, azureErr) ==
    IF ~config.Enabled
    THEN [done |-> TRUE, err |-> ErrNil, moderator |-> {NilModerator},
          logs |-> {LogEntry("info", "Content moderation is disabled", <<>>)}]
    ELSE IF config.Type = "azure"
    THEN IF azureErr
         THEN [done |-> TRUE,
               err |-> Wrap(<<"azure", "error">>, <<"failed", "to", "create", "Azure", "moderator">>),
               moderator |-> {},
               logs |-> {LogEntry("error", "failed to create Azure moderator",
                                  [err |-> "azure error"])}]
         ELSE [done |-> FALSE, err |-> ErrNil, moderator |-> {AzureModerator},
               logs |-> {LogEntry("info", "Azure AI Content Safety moderator initialized", <<>>)}]
    ELSE [done |-> TRUE, err |-> <<"unknown", "moderator", "type:", config.Type>>,
          moderator |-> {}, logs |-> {}]

\* the return of initModerator: OnActivate wraps an error and the host
\* deactivates the plugin; after a configuration change the plugin stays active
initModerator_return(err) ==
    /\ initPc' = "idle"
    /\ appliedConfig' = IF err = ErrNil THEN {configuration} ELSE appliedConfig
    /\ IF status = "activating"
       THEN /\ status' = IF err = ErrNil THEN "active" ELSE "failed"
            /\ activateErr' = IF err = ErrNil THEN ErrNil
                              ELSE Wrap(err, <<"failed", "to", "initialize", "moderator">>)
       ELSE UNCHANGED <<status, activateErr>>

\* plugin.go:39-47 up to the call of initModerator
OnActivate ==
    /\ status = "inactive"
    /\ status' = "activating"
    /\ initPc' = "moderator"
    /\ UNCHANGED <<configuration, activateErr, appliedConfig, procResult, httpVars,
                   bufferedAtStop, procVars, chanVars, workerVars, clockVars, hostVars,
                   histVars, pluginVars, evalVars>>

\* the host replaces the configuration of the active plugin, which
\* initializes the moderator again
OnConfigurationChange(config) ==
    /\ status = "active"
    /\ initPc = "idle"
    /\ configuration' = config
    /\ ModerateAllUsers' = config.ModerateAllUsers
    /\ initPc' = "moderator"
    /\ UNCHANGED <<status, activateErr, appliedConfig, procResult, httpVars,
                   bufferedAtStop, procVars, chanVars, workerVars, clockVars, hostVars,
                   histVars, Plugin_moderator, Plugin_thresholdValue, Plugin_targetUsers,
                   evalVars>>

\* initModerator, lines 51-78
initModerator_setModerator(azureErr) ==
    /\ initPc = "moderator"
    /\ LET r == initModerator_moderator(configuration, azureErr) IN
        /\ Plugin_moderator' = IF r.moderator = {} THEN Plugin_moderator
                               ELSE CHOOSE m \in r.moderator : TRUE
        /\ logs' = logs \cup r.logs
        /\ IF r.done
           THEN initModerator_return(r.err)
           ELSE /\ initPc' = "threshold"
                /\ UNCHANGED <<status, activateErr, appliedConfig>>
    /\ UNCHANGED <<configuration, procResult, httpVars, bufferedAtStop, procVars, chanVars,
                   workerVars, clockVars, deleteRequests, created, histVars,
                   Plugin_thresholdValue, Plugin_targetUsers, ModerateAllUsers, evalVars>>

\* initModerator, lines 80-85
initModerator_setThreshold ==
    /\ initPc = "threshold"
    /\ LET r == ThresholdValue(configuration) IN
        IF r.err # ErrNil
        THEN /\ logs' = logs \cup {LogEntry("error", "failed to load moderation threshold",
                                            [err |-> "invalid threshold"])}
             /\ initModerator_return(
                    Wrap(r.err, <<"failed", "to", "load", "moderation", "threshold">>))
             /\ UNCHANGED Plugin_thresholdValue
        ELSE /\ Plugin_thresholdValue' = r.value
             /\ initPc' = "targets"
             /\ UNCHANGED <<logs, status, activateErr, appliedConfig>>
    /\ UNCHANGED <<configuration, procResult, httpVars, bufferedAtStop, procVars, chanVars,
                   workerVars, clockVars, deleteRequests, created, histVars,
                   Plugin_moderator, Plugin_targetUsers, ModerateAllUsers, evalVars>>

\* initModerator, lines 87-89
initModerator_setTargets ==
    /\ initPc = "targets"
    /\ Plugin_targetUsers' = ModerationTargetsList(configuration)
    /\ initModerator_return(ErrNil)
    /\ UNCHANGED <<configuration, procResult, httpVars, bufferedAtStop, procVars, chanVars,
                   workerVars, clockVars, hostVars, histVars,
                   Plugin_moderator, Plugin_thresholdValue, ModerateAllUsers, evalVars>>

\* processor.go:52-54: the error newPostProcessor returns
newPostProcessor_ret(moderator) ==
    ProcessorResult(TRUE, moderator,
                    IF moderator = NilModerator THEN ErrModerationUnavailable ELSE ErrNil)

\* processor.go:45-63
newPostProcessor(bot, moderator, threshold, users, channels) ==
    /\ ~procResult.called
    /\ procResult' = newPostProcessor_ret(moderator)
    /\ IF procResult'.err = ErrNil
       THEN /\ botID' = bot
            /\ thresholdValue' = threshold
            /\ excludedUsers' = users
            /\ excludedChannels' = channels
            /\ postsCh' = <<>>
       ELSE UNCHANGED <<procVars, postsCh>>
    /\ UNCHANGED <<configuration, status, activateErr, initPc, appliedConfig, httpVars,
                   bufferedAtStop, closed, workerVars, clockVars, hostVars, histVars,
                   pluginVars, evalVars>>

\* processor.go:65-66: the worker goroutine is launched on a processor
start ==
    /\ procResult.called
    /\ procResult.err = ErrNil
    /\ pc = "unstarted"
    /\ pc' = "recv"
    /\ UNCHANGED <<lifeVars, httpVars, bufferedAtStop, procVars, chanVars, cur, clockVars,
                   hostVars, histVars, pluginVars, evalVars>>

\* posts and provider outcomes the hooks of the active plugin are given
LifecyclePosts == {MkPost("p1", u, "c1", "", <<"bad", "text">>) : u \in {"u1", "u2"}}

PluginInit ==
    /\ botID = ""
    /\ thresholdValue = 0
    /\ excludedUsers = {}
    /\ excludedChannels = {}
    /\ postsCh = <<>>
    /\ closed = FALSE
    /\ pc = "unstarted"
    /\ cur = NoPost
    /\ now = 0
    /\ wakeAt = 0
    /\ evalTimes = <<>>
    /\ deleteRequests = <<>>
    /\ created = <<>>
    /\ logs = {}
    /\ admitted = <<>>
    /\ received = <<>>
    /\ verdicts = [id \in {} |-> "Clear"]
    /\ enqueues = 0
    /\ Plugin_moderator = NilModerator
    /\ Plugin_thresholdValue = 0
    /\ Plugin_targetUsers = {}
    /\ \E config \in Configurations :
        /\ configuration = config
        /\ ModerateAllUsers = config.ModerateAllUsers
    /\ lastEval = NoEval
    /\ gateRet = NoReturn
    /\ bufferedAtStop = <<>>
    /\ status = "inactive"
    /\ activateErr = ErrNil
    /\ initPc = "idle"
    /\ appliedConfig = {}
    /\ procResult = NoProcessor
    /\ responses = <<>>

PluginNext ==
    \/ OnActivate
    \/ \E config \in Configurations : OnConfigurationChange(config)
    \/ \E azureErr \in BOOLEAN : initModerator_setModerator(azureErr)
    \/ initModerator_setThreshold
    \/ initModerator_setTargets
    \/ \E newPost \in LifecyclePosts, outcome \in PipelineOutcomes :
           status = "active" /\ MessageWillBePosted(newPost, outcome)
    \/ \E moderator \in {NilModerator, AzureModerator}, config \in PipelineConfigs :
           newPostProcessor(BotUser, moderator, MaxSeverity,
                            config.excludedUsers, config.excludedChannels)
    \/ start

PluginSpec == PluginInit /\ [][PluginNext]_vars

(***************************************************************************)
(* api.go: ServeHTTP and the group search behind it.                       *)
(***************************************************************************)
\* users for which HasPermissionTo(userID, PermissionManageSystem) holds
SystemAdmins == {"u1"}
HasPermissionTo(userID) == userID \in SystemAdmins

\* a text of the query string is the sequence of its characters
Prefixes == {<<>>, <<" ">>, <<"d">>, <<" ", "d", " ">>}
RECURSIVE TrimLeft(_)
TrimLeft(t) == IF t # <<>> /\ Head(t) = " " THEN TrimLeft(Tail(t)) ELSE t
RECURSIVE TrimRight(_)
TrimRight(t) ==
    IF t # <<>> /\ t[Len(t)] = " " THEN TrimRight(SubSeq(t, 1, Len(t) - 1)) ELSE t
TrimSpace(t) == TrimRight(TrimLeft(t))

\* the Mattermost-User-ID header ("" when the request carries none), method,
\* path and prefix parameter of a request
Requests ==
    [userID : {"", "u1", "u2"}, method : {"GET", "POST"},
     path : {"/api/v1/groups/search", "/other"}, prefix : Prefixes]
\* the groups the store finds for a prefix, whether the search fails and
\* whether writing the encoded groups fails
StoreOutcomes == [err : BOOLEAN, encodeErr : BOOLEAN]
FoundGroups(prefix) == <<[name |-> prefix]>>

\* the http.ResponseWriter: status 0 until the header is written; searched
\* lists the prefixes SearchLDAPGroupsByPrefix was called with
NewResponse(userID) ==
    [userID |-> userID, status |-> 0, body |-> <<>>, searched |-> <<>>, logs |-> {}]
\* http.Error and Write: only the first WriteHeader sets the status
HttpError(w, msg, code) ==
    [w EXCEPT !.status = IF w.status = 0 THEN code ELSE w.status,
              !.body = Append(w.body, [kind |-> "text", text |-> msg])]
HttpWriteJSON(w, groups) ==
    [w EXCEPT !.status = IF w.status = 0 THEN 200 ELSE w.status,
              !.body = Append(w.body, [kind |-> "json", groups |-> groups])]

\* api.go:32-50
searchLDAPGroups(w, req, out) ==
    LET prefix == TrimSpace(req.prefix) IN
    IF prefix = <<>> THEN HttpError(w, "missing search prefix", 400)
    ELSE LET w1 == [w EXCEPT !.searched = Append(w.searched, prefix)] IN
         IF out.err
         THEN [HttpError(w1, "failed to search groups", 500) EXCEPT
                  !.logs = w1.logs \cup {LogEntry("error", "failed to search groups",
                                                  [error |-> "store error"])}]
         ELSE IF out.encodeErr
         THEN [w1 EXCEPT
                  !.logs = w1.logs \cup {LogEntry("error", "failed to write http response",
                                                  [error |-> "write error"])}]
         ELSE HttpWriteJSON(w1, FoundGroups(prefix))

\* api.go:27-29: the router serves GET /api/v1/groups/search
router_ServeHTTP(w, req, out) ==
    IF req.path # "/api/v1/groups/search" THEN HttpError(w, "404 page not found", 404)
    ELSE IF req.method # "GET" THEN HttpError(w, "", 405)
    ELSE searchLDAPGroups(w, req, out)

\* api.go:14-30: the response ServeHTTP writes
ServeHTTP_response(req, out) ==
    LET w == NewResponse(req.userID) IN
    IF req.userID = "" THEN HttpError(w, "Not authorized", 401)
    ELSE LET w1 == IF ~HasPermissionTo(req.userID)
                   THEN HttpError(w, "Not authorized", 401)
                   ELSE w
         IN  router_ServeHTTP(w1, req, out)

ServeHTTP(req, out) ==
    /\ Len(responses) < MaxRequests
    /\ LET w == ServeHTTP_response(req, out) IN
        /\ responses' = Append(responses, w)
        /\ logs' = logs \cup w.logs
    /\ UNCHANGED <<lifeVars, bufferedAtStop, procVars, chanVars, workerVars, clockVars,
                   deleteRequests, created, histVars, pluginVars, evalVars>>

HttpNext == \E req \in Requests, out \in StoreOutcomes : ServeHTTP(req, out)

HttpSpec == Init /\ [][HttpNext]_vars

(***************************************************************************)
(* Properties.                                                             *)
(***************************************************************************)
ThresholdOf(path) == IF path = "async" THEN thresholdValue ELSE Plugin_thresholdValue
ViolationIds == {id \in DOMAIN verdicts : verdicts[id] = "Violation"}
ChannelIds == [i \in DOMAIN postsCh |-> postsCh[i].Id]
IsPrefix(s, t) == Len(s) <= Len(t) /\ SubSeq(t, 1, Len(s)) = s
Occurrences(seq, x) == Cardinality({i \in DOMAIN seq : seq[i] = x})
\* text s contains text t as a run of consecutive words
Contains(s, t) ==
    \E i \in 0..(Len(s) - Len(t)) : SubSeq(s, i + 1, i + Len(t)) = t
\* the post queuePostForProcessing was given under this id
PipelinePost(id) == CHOOSE p \in PipelinePosts(id) : TRUE
\* the worker finished this many delete-and-report sequences
ReportsDone == Len(deleteRequests) - (IF pc = "report" THEN 1 ELSE 0)
\* CreatePost calls in a channel of the server, and in a direct channel
IsNotice(c) == c.post.ChannelId \in Channels
IsDM(c) == c.post.ChannelId \in {DirectChannelId[u] : u \in Users}
NoticeAttempts == Cardinality({j \in DOMAIN created : IsNotice(created[j])})
ReportFailedEntry(id) ==
    LogEntry("error", "Failed report content moderation event", [post_id |-> id])
DeleteFailedEntry(id) ==
    LogEntry("error", "Failed to delete post flagged by content moderation", [post_id |-> id])
\* the two engines are configured alike: the same threshold, a provider, the
\* same moderated users, and no channel exemption (the gate has none)
SameConfiguration ==
    /\ Plugin_moderator # NilModerator
    /\ Plugin_thresholdValue = thresholdValue
    /\ excludedChannels = {}
    /\ \A u \in Users \ {botID} :
          (u \notin excludedUsers) <=> (ModerateAllUsers \/ u \in Plugin_targetUsers)
\* a log entry of level error that names a post or a user
IdentifiedError(e) ==
    e.level = "error" /\ ({"post_id", "user_id"} \cap DOMAIN e.kv) # {}
\* a configuration with moderation enabled that initModerator rejects
BadConfiguration(c) ==
    c.Enabled /\ (c.Type # "azure" \/ ThresholdValue(c).err # ErrNil)
\* the fields the hooks read are the ones a complete initModerator of c leaves
ConfigurationApplied(c) ==
    /\ ~BadConfiguration(c)
    /\ IF ~c.Enabled THEN Plugin_moderator = NilModerator
       ELSE /\ Plugin_moderator = AzureModerator
            /\ Plugin_thresholdValue = ThresholdValue(c).value
            /\ Plugin_targetUsers = ModerationTargetsList(c)
            /\ ModerateAllUsers = c.ModerateAllUsers
\* the debug entry of the deferred recover in queuePostForProcessing
PanicEntry(id) ==
    LogEntry("debug", "Panic occurred while queueing post for processing",
             [post_id |-> id, panic |-> "send on closed channel"])
IsSuffix(s, t) == Len(s) <= Len(t) /\ SubSeq(t, Len(t) - Len(s) + 1, Len(t)) = s
OverflowEntry(id) ==
    LogEntry("error",
             "Content moderation unable to analyze post: exceeded maximum post queue size",
             [post_id |-> id])

\* C1: on both paths, an evaluation whose provider call succeeded is a
\* Violation if and only if some category of the result, whichever, has a
\* severity >= the threshold, and it is Clear when every severity is below it.
C1_VerdictIffSeverityAtThreshold ==
    (lastEval.path # "none" /\ lastEval.called /\ ~lastEval.outcome.err) =>
        LET result == lastEval.outcome.result
            T == ThresholdOf(lastEval.path)
        IN  /\ (Verdict(lastEval.err) = "Violation") <=> (\E c \in DOMAIN result : result[c] >= T)
            /\ (\A c \in DOMAIN result : result[c] < T) => Verdict(lastEval.err) = "Clear"

\* C1 witness: the worker's engine judged a Violation on a result with one
\* category equal to the threshold and another below it.
C1_Witness ==
    /\ lastEval.path = "async" /\ lastEval.called /\ ~lastEval.outcome.err
    /\ Verdict(lastEval.err) = "Violation"
    /\ \E c, d \in DOMAIN lastEval.outcome.result :
          /\ lastEval.outcome.result[c] = thresholdValue
          /\ lastEval.outcome.result[d] < thresholdValue

\* C2 (as claimed): on every path and under every configuration, a post whose
\* author is the bot is Clear and the provider is not called.
C2_BotAlwaysClearWithoutCall ==
    (lastEval.path # "none" /\ lastEval.post.UserId = botID) =>
        (Verdict(lastEval.err) = "Clear" /\ ~lastEval.called)

\* C3: PostProcessor.moderatePost returns Clear without a provider call for an
\* author in the non-empty excludedUsers and for a channel in the non-empty
\* excludedChannels; with an empty set nobody is exempt on that axis: a
\* non-empty post of another author than the bot that the other axis does not
\* exempt reaches the provider.
C3_ExemptionSets ==
    lastEval.path = "async" =>
        LET post == lastEval.post IN
        /\ (excludedUsers # {} /\ post.UserId \in excludedUsers) =>
               (Verdict(lastEval.err) = "Clear" /\ ~lastEval.called)
        /\ (excludedChannels # {} /\ post.ChannelId \in excludedChannels) =>
               (Verdict(lastEval.err) = "Clear" /\ ~lastEval.called)
        /\ (excludedUsers = {} /\ post.UserId # botID /\ post.ChannelId \notin excludedChannels
                /\ post.Message # EmptyText) => lastEval.called
        /\ (excludedChannels = {} /\ post.UserId # botID /\ post.UserId \notin excludedUsers
                /\ post.Message # EmptyText) => lastEval.called

\* C3 witness: a non-empty post in an excluded channel, by an author who is not
\* excluded, was judged Clear without a provider call.
C3_Witness ==
    /\ lastEval.path = "async"
    /\ excludedChannels # {} /\ lastEval.post.ChannelId \in excludedChannels
    /\ lastEval.post.UserId \notin excludedUsers \cup {botID}
    /\ lastEval.post.Message # EmptyText
    /\ Verdict(lastEval.err) = "Clear" /\ ~lastEval.called

\* C4: the worker requests a deletion or creates a post only for the post it
\* holds and only after judging it a Violation; a Clear evaluation changes
\* nothing on the host, an Unavailable one adds exactly its error log entry,
\* and both return the worker to the receive.
C4_SideEffectsOnlyOnViolation ==
    [][ /\ (deleteRequests' # deleteRequests \/ created' # created) =>
              /\ cur.Id \in ViolationIds /\ cur' = cur
              /\ \A i \in (DOMAIN deleteRequests') \ (DOMAIN deleteRequests) :
                     deleteRequests'[i].post_id = cur.Id
        /\ (verdicts' # verdicts /\ verdicts'[cur.Id] = "Clear") =>
              (UNCHANGED <<deleteRequests, created, logs, postsCh>> /\ pc' = "recv")
        /\ (verdicts' # verdicts /\ verdicts'[cur.Id] = "Unavailable") =>
              /\ UNCHANGED <<deleteRequests, created, postsCh>> /\ pc' = "recv"
              /\ logs' = logs \cup {LogEntry("error", "Content moderation error",
                                             [err |-> ErrModerationUnavailable,
                                              post_id |-> cur.Id, user_id |-> cur.UserId])}
      ]_vars

\* C4 witness: a post was judged Unavailable, the worker is back at the
\* receive, and nothing was deleted or posted.
C4_Witness ==
    /\ \E id \in DOMAIN verdicts : verdicts[id] = "Unavailable"
    /\ pc = "recv" /\ deleteRequests = <<>> /\ created = <<>>
    /\ \E e \in logs : e.msg = "Content moderation error"

\* C5: after either hook, a Clear verdict commits the post unmodified and a
\* Violation verdict returns the post with its body replaced by the rejection
\* notice; the rejection reason is empty in both cases.
C5_GateRewrites ==
    lastEval.path = "gate" =>
        /\ gateRet.reason = ""
        /\ Verdict(lastEval.err) = "Clear" => Committed(lastEval.post, gateRet) = lastEval.post
        /\ Verdict(lastEval.err) = "Violation" =>
               gateRet.post = {[lastEval.post EXCEPT !.Message = Plugin_ErrModerationRejection]}

\* C5 witness: MessageWillBePosted returned a rewritten post for a Violation.
C5_Witness ==
    /\ lastEval.path = "gate" /\ gateRet.hook = "MessageWillBePosted"
    /\ Verdict(lastEval.err) = "Violation"
    /\ gateRet.post # {} /\ Committed(lastEval.post, gateRet).Message # lastEval.post.Message

\* C6: a provider call that failed yields Unavailable on both paths whatever
\* result came with the error, and the hooks then return the post with its body
\* replaced by the unavailable notice, which differs from the rejection notice.
C6_FailedCallIsUnavailable ==
    (lastEval.path # "none" /\ lastEval.called /\ lastEval.outcome.err) =>
        /\ Verdict(lastEval.err) = "Unavailable"
        /\ lastEval.path = "gate" =>
               /\ gateRet.post = {[lastEval.post EXCEPT !.Message = Plugin_ErrModerationUnavailable]}
               /\ Plugin_ErrModerationUnavailable # Plugin_ErrModerationRejection

\* C6 witness: the gate's provider call failed and came with a result at or
\* above the threshold; the post was rewritten to the unavailable notice.
C6_Witness ==
    /\ lastEval.path = "gate" /\ lastEval.called /\ lastEval.outcome.err
    /\ \E c \in DOMAIN lastEval.outcome.result :
          lastEval.outcome.result[c] >= Plugin_thresholdValue
    /\ Committed(lastEval.post, gateRet).Message = Plugin_ErrModerationUnavailable

\* C7: postsCh never holds more than maxProcessingQueueSize posts; a call of
\* queuePostForProcessing on a full channel leaves the channel, the admitted
\* posts and the worker as they are and records the dropped post in the log,
\* with the overflow error entry as long as the channel is open.
C7_EnqueueOnFullDrops ==
    /\ [](Len(postsCh) <= maxProcessingQueueSize)
    /\ [][ (enqueues' = enqueues + 1 /\ Len(postsCh) >= maxProcessingQueueSize) =>
              /\ UNCHANGED <<postsCh, admitted, closed, pc, cur>>
              /\ \E e \in logs' \ logs : e.kv.post_id = PostIds[enqueues']
              /\ ~closed => OverflowEntry(PostIds[enqueues']) \in logs'
         ]_vars

\* C7 witness: the channel is full and open and a post was dropped with the
\* overflow entry.
C7_Witness ==
    /\ Len(postsCh) = maxProcessingQueueSize /\ ~closed
    /\ \E n \in 1..enqueues : OverflowEntry(PostIds[n]) \in logs

\* C8: the worker receives the posts in the order of their admission; when it
\* holds a post, every post received before has its verdict, and when it is
\* about to receive or evaluate, every earlier Violation has had its deletion
\* requested; deletions are requested in admission order.
C8_FifoOrder ==
    /\ IsPrefix(received, admitted)
    /\ \A i \in 1..(Len(received) - 1) : received[i] \in DOMAIN verdicts
    /\ pc \in {"sleep", "delete", "report"} => cur.Id = received[Len(received)]
    /\ pc \in {"recv", "sleep", "done"} =>
           /\ Len(deleteRequests) = Cardinality(ViolationIds)
           /\ pc # "sleep" => \A i \in DOMAIN received : received[i] \in DOMAIN verdicts
    /\ \A i, j \in DOMAIN deleteRequests :
           i < j => \E a, b \in DOMAIN admitted :
                        /\ a < b
                        /\ admitted[a] = deleteRequests[i].post_id
                        /\ admitted[b] = deleteRequests[j].post_id

\* C8 witness: three posts were admitted, the first was judged a Violation and
\* deleted, and the worker is about to evaluate the second.
C8_Witness ==
    /\ Len(admitted) >= 3 /\ Len(received) = 2 /\ pc = "sleep"
    /\ received[1] \in ViolationIds /\ Len(deleteRequests) = 1 /\ Len(created) = 2
    /\ cur.Id = admitted[2]

\* C9: every admitted post is either still buffered or was received, never
\* both and never twice; a post that has its verdict is not buffered again, and
\* the provider was called at most once for each evaluated post.
C9_ConsumedOnce ==
    /\ \A k \in DOMAIN admitted :
           Occurrences(received, admitted[k]) + Occurrences(ChannelIds, admitted[k]) = 1
    /\ \A id \in DOMAIN verdicts :
           Occurrences(received, id) = 1 /\ Occurrences(ChannelIds, id) = 0
    /\ Cardinality(DOMAIN verdicts) <= Len(received)
    /\ Len(evalTimes) <= Cardinality(DOMAIN verdicts)

\* C9 witness: the first post was judged Unavailable, the worker holds the
\* second and the third is buffered.
C9_Witness ==
    /\ Len(admitted) = 3 /\ Len(received) = 2 /\ Len(postsCh) = 1
    /\ verdicts[received[1]] = "Unavailable"
    /\ pc = "sleep"

\* C10 (as claimed): no window of one minute holds more than
\* postsPerMinuteLimit provider calls of the worker.
C10_RateCeiling ==
    \A t \in 0..MaxTime :
        Cardinality({i \in DOMAIN evalTimes : t <= evalTimes[i] /\ evalTimes[i] < t + Minute})
            <= postsPerMinuteLimit

\* C11 (as stated): shutdown is fail-fast: no post that was still buffered when
\* stop() closed the queue is received by the worker afterwards
C11_FailFastShutdown ==
    \A i \in DOMAIN bufferedAtStop : Occurrences(received, bufferedAtStop[i]) = 0

\* C11 (amended): after stop() the worker keeps receiving the buffered posts in
\* order; it stops only at a receive that finds the queue closed and empty,
\* and by then every post buffered at the close has been evaluated
C11_DrainsBufferAfterStop ==
    /\ closed =>
         \E k \in 0..Len(bufferedAtStop) :
            /\ ChannelIds = SubSeq(bufferedAtStop, k + 1, Len(bufferedAtStop))
            /\ \A i \in 1..k : Occurrences(received, bufferedAtStop[i]) = 1
    /\ pc = "done" =>
         /\ closed
         /\ postsCh = <<>>
         /\ \A i \in DOMAIN bufferedAtStop : bufferedAtStop[i] \in DOMAIN verdicts

\* the queue was closed with two posts buffered, the worker evaluated both
\* (one of them flagged) and then stopped
C11_Witness ==
    /\ pc = "done"
    /\ Len(bufferedAtStop) = 2
    /\ \A i \in DOMAIN bufferedAtStop : bufferedAtStop[i] \in DOMAIN verdicts
    /\ \E i \in DOMAIN bufferedAtStop : verdicts[bufferedAtStop[i]] = "Violation"

\* C12: while every host call has succeeded, each flagged post has exactly one
\* deletion request, made before its notifications; the i-th deletion is
\* followed by exactly one notice by the bot in the post's channel and thread
\* whose text does not contain the post's text, and then by exactly one direct
\* message by the bot to the author whose text contains the post's text
C12_ViolationActions ==
    LET clean == /\ \A i \in DOMAIN deleteRequests : deleteRequests[i].ok
                 /\ \A j \in DOMAIN created : created[j].ok
                 /\ \A id \in DOMAIN verdicts : ReportFailedEntry(id) \notin logs
        deleted == [i \in DOMAIN deleteRequests |-> deleteRequests[i].post_id]
    IN  clean =>
          /\ \A id \in ViolationIds :
                Occurrences(deleted, id) =
                    IF id = cur.Id /\ pc = "delete" THEN 0 ELSE 1
          /\ Len(created) = 2 * ReportsDone
          /\ \A i \in 1..ReportsDone :
                LET post == PipelinePost(deleted[i])
                    notice == created[2 * i - 1].post
                    dm == created[2 * i].post
                IN  /\ notice = MkPost("", botID, post.ChannelId, post.RootId,
                                       channelNotificationTemplate)
                    /\ ~Contains(notice.Message, post.Message)
                    /\ dm.UserId = botID
                    /\ dm.ChannelId = DirectChannelId[post.UserId]
                    /\ Contains(dm.Message, post.Message)

\* two posts were flagged, every host call succeeded, and the worker is back
\* at the receive after two deletions, two notices and two direct messages
C12_Witness ==
    /\ pc = "recv"
    /\ Len(deleteRequests) = 2
    /\ \A i \in DOMAIN deleteRequests : deleteRequests[i].ok
    /\ Len(created) = 4
    /\ \A j \in DOMAIN created : created[j].ok
    /\ \A id \in DOMAIN verdicts : ReportFailedEntry(id) \notin logs
    /\ Cardinality(ViolationIds) = 2

\* C13: a failed deletion is logged, the deletion of a post is requested at
\* most once, and every deletion request, failed or not, leaves the worker at
\* the report of that post, which attempts the channel notice
C13_DeleteFailureNotFatal ==
    LET deleted == [i \in DOMAIN deleteRequests |-> deleteRequests[i].post_id]
    IN  /\ \A i \in DOMAIN deleteRequests :
              /\ ~deleteRequests[i].ok => DeleteFailedEntry(deleted[i]) \in logs
              /\ Occurrences(deleted, deleted[i]) = 1
        /\ NoticeAttempts = ReportsDone
        /\ Len(deleteRequests) # NoticeAttempts => pc = "report"

\* the deletion of the only flagged post failed and was logged, it was not
\* requested again, and the notice and the direct message were both posted
C13_Witness ==
    /\ pc = "recv"
    /\ Len(deleteRequests) = 1
    /\ ~deleteRequests[1].ok
    /\ DeleteFailedEntry(deleteRequests[1].post_id) \in logs
    /\ Len(created) = 2
    /\ IsNotice(created[1]) /\ created[1].ok
    /\ IsDM(created[2]) /\ created[2].ok

\* C14 (as stated): a channel notice that failed is still followed by the
\* attempt of the direct message to the author
C14_NotificationsIndependent ==
    \A j \in DOMAIN created :
        (IsNotice(created[j]) /\ ~created[j].ok) =>
            (j + 1 \in DOMAIN created /\ IsDM(created[j + 1]))

\* C15 (as stated): for the input a hook evaluated, the worker's decision
\* engine under the same configuration yields the same verdict and makes
\* the same decision about calling the provider
C15_SameDecisionEngine ==
    (lastEval.path = "gate" /\ SameConfiguration) =>
        \A outcome \in (IF lastEval.called THEN {lastEval.outcome} ELSE ProviderOutcomes) :
            LET ev == moderatePost(lastEval.post, outcome)
            IN  /\ Verdict(ev.err) = Verdict(lastEval.err)
                /\ ev.called = lastEval.called

\* C16: on both paths the evaluation of a post with empty text is Clear,
\* makes no provider call and logs nothing
C16_EmptyTextClear ==
    (lastEval.path # "none" /\ lastEval.post.Message = EmptyText) =>
        /\ Verdict(lastEval.err) = "Clear"
        /\ ~lastEval.called
        /\ lastEval.logs = {}
        /\ logs = {}

\* the worker's engine judged an empty post of a moderated user in a
\* moderated channel
C16_Witness ==
    /\ lastEval.path = "async"
    /\ lastEval.post.Message = EmptyText
    /\ shouldModerateUser(lastEval.post.UserId)
    /\ shouldModerateChannel(lastEval.post.ChannelId)
    /\ Verdict(lastEval.err) = "Clear"
    /\ ~lastEval.called

\* C20 (as stated): an Unavailable verdict of a hook, and of the worker, has
\* left an error log entry that names the post or the user
C20_UnavailableIsLogged ==
    /\ (lastEval.path = "gate" /\ Verdict(lastEval.err) = "Unavailable") =>
            \E e \in logs : IdentifiedError(e)
    /\ \A id \in DOMAIN verdicts :
            verdicts[id] = "Unavailable" =>
                \E e \in logs : IdentifiedError(e) /\ e.kv.post_id = id

\* C17: an activation with moderation enabled and an unknown provider type or
\* a malformed threshold never becomes active: OnActivate returns an error
\* and no hook runs; newPostProcessor given a nil moderator returns
\* ErrModerationUnavailable, sets no field, makes no queue, and no worker
\* is started
C17_ConfigurationErrorIsFatal ==
    /\ [][(status = "activating" /\ BadConfiguration(configuration)) =>
              status' # "active"]_vars
    /\ [](status = "failed" => activateErr # ErrNil)
    /\ [](status = "active" => activateErr = ErrNil)
    /\ [](status # "active" => (lastEval = NoEval /\ gateRet = NoReturn))
    /\ []((procResult.called /\ procResult.moderator = NilModerator) =>
              /\ procResult.err = ErrModerationUnavailable
              /\ pc = "unstarted"
              /\ botID = "" /\ thresholdValue = 0
              /\ excludedUsers = {} /\ excludedChannels = {})

\* the activation with a malformed threshold failed after the provider was
\* created, and newPostProcessor was refused for a nil moderator
C17_Witness ==
    /\ status = "failed"
    /\ configuration.Enabled /\ configuration.Type = "azure"
    /\ ThresholdValue(configuration).err # ErrNil
    /\ activateErr # ErrNil
    /\ procResult.called /\ procResult.err = ErrModerationUnavailable

\* C18 (as stated): a request without a user id, or of a user who is not a
\* system admin, is answered with a 4xx status, the store is never searched
\* for it and no groups are written to its response
C18_SearchIsAdminOnly ==
    \A i \in DOMAIN responses :
        LET w == responses[i] IN
        (w.userID = "" \/ ~HasPermissionTo(w.userID)) =>
            /\ w.status \in 400..499
            /\ w.searched = <<>>
            /\ \A k \in DOMAIN w.body : w.body[k].kind # "json"

\* C19 (as stated): an evaluation by a hook modifies neither engine's
\* threshold, user and channel sets or provider, and the fields it reads are
\* those of one configuration, the one in force before a configuration
\* change or the new one
C19_ConfigurationReadOnly ==
    [][ /\ lastEval' # lastEval => UNCHANGED <<procVars, pluginVars>>
        /\ (lastEval' # lastEval /\ lastEval'.path = "gate") =>
              \E c \in appliedConfig \cup {configuration} : ConfigurationApplied(c)
      ]_vars

\* C21 (as stated): the pause the worker starts when it has received a post
\* lasts one minute divided by the per-minute limit, a positive duration
C21_PositiveInterval ==
    [][(pc = "recv" /\ pc' = "sleep") =>
          /\ wakeAt' = now + (Minute \div postsPerMinuteLimit)
          /\ wakeAt' > now]_vars

\* C22: every call of queuePostForProcessing returns, having admitted the
\* post, logged the overflow or logged the recovered panic, exactly one of
\* the three; a post whose send panicked was offered to the closed queue and
\* is never buffered, received, evaluated or deleted; and once the queue is
\* closed nothing more is admitted: the posts buffered at the close are the
\* last ones admitted
C22_EnqueueAfterStopIsRecovered ==
    /\ \A n \in 1..enqueues :
          LET id == PostIds[n]
              wasAdmitted == \E k \in DOMAIN admitted : admitted[k] = id
              overflowed == OverflowEntry(id) \in logs
              panicked == PanicEntry(id) \in logs
          IN  /\ wasAdmitted \/ overflowed \/ panicked
              /\ ~(wasAdmitted /\ overflowed)
              /\ ~(wasAdmitted /\ panicked)
              /\ ~(overflowed /\ panicked)
              /\ panicked =>
                    /\ closed
                    /\ Occurrences(ChannelIds, id) = 0
                    /\ Occurrences(received, id) = 0
                    /\ id \notin DOMAIN verdicts
                    /\ \A i \in DOMAIN deleteRequests : deleteRequests[i].post_id # id
    /\ closed => IsSuffix(bufferedAtStop, admitted)
    /\ ~closed => \A n \in 1..enqueues : PanicEntry(PostIds[n]) \notin logs

\* two posts were admitted, the queue was closed, the third post was offered
\* to the closed queue and its panic was recovered; the worker then drained
\* the two admitted posts and stopped without ever seeing the third
C22_Witness ==
    /\ closed
    /\ enqueues = 3
    /\ admitted = <<PostIds[1], PostIds[2]>>
    /\ PanicEntry(PostIds[3]) \in logs
    /\ pc = "done"
    /\ DOMAIN verdicts = {PostIds[1], PostIds[2]}

\* C23: once stop() has closed the queue the worker eventually returns, and
\* after its return it receives, evaluates, deletes and posts nothing more
C23_WorkerTerminates ==
    /\ closed ~> (pc = "done")
    /\ [][pc = "done" =>
            /\ pc' = "done"
            /\ UNCHANGED <<cur, received, evalTimes, verdicts, deleteRequests, created>>
        ]_vars

\* the queue was closed while one post was buffered; the worker received it,
\* found it in violation, deleted it, posted both notifications and returned
C23_Witness ==
    /\ closed
    /\ pc = "done"
    /\ Len(bufferedAtStop) = 1
    /\ verdicts[bufferedAtStop[1]] = "Violation"
    /\ \E i \in DOMAIN deleteRequests : deleteRequests[i].post_id = bufferedAtStop[1]
    /\ Len(created) >= 2

====
